---- MODULE Spec2Model ----
(***************************************************************************)
(* Conflict detection and merge engine of the CV system                    *)
(* (src/src/lib/conflict/detect.ts, src/src/lib/conflict/index.ts) and the *)
(* resolver that drives it (src/src/components/import/                     *)
(* conflict-resolver.tsx).                                                 *)
(*                                                                         *)
(* Strings are sequences of one-character strings, so that trim(),         *)
(* toLowerCase() and split(/\s+/) are computed and not assumed.  null and  *)
(* undefined are the one-element sequences Null and Undefined, which are   *)
(* no strings of characters.  Dates are ISO strings parsed by ParseDate    *)
(* to a month count relative to 1970-01.                                   *)
(***************************************************************************)
EXTENDS Integers, Sequences, FiniteSets, TLC

(***************************************************************************)
(* JavaScript values                                                       *)
(***************************************************************************)
Null == <<"<null>">>

Undefined == <<"<undefined>">>

NullNum == -1

UndefinedNum == -2

NullDate == "null"

IsNullish(v) == v = Null \/ v = Undefined

\* a ?? '' (detect.ts:19-22)
OrEmpty(v) == IF IsNullish(v) THEN <<>> ELSE v

\* !a for a string | null: null, undefined and '' are falsy (detect.ts:39-40)
Falsy(v) == IsNullish(v) \/ v = <<>>

IsSpace(c) == c = " "

UpperToLower ==
  [A |-> "a", B |-> "b", C |-> "c", D |-> "d", E |-> "e", F |-> "f", G |-> "g",
   H |-> "h", I |-> "i", J |-> "j", K |-> "k", L |-> "l", M |-> "m", N |-> "n",
   O |-> "o", P |-> "p", Q |-> "q", R |-> "r", S |-> "s", T |-> "t", U |-> "u",
   V |-> "v", W |-> "w", X |-> "x", Y |-> "y", Z |-> "z"]

LowerChar(c) == IF c \in DOMAIN UpperToLower THEN UpperToLower[c] ELSE c

\* String.prototype.toLowerCase
toLowerCase(s) == [i \in 1..Len(s) |-> LowerChar(s[i])]

RECURSIVE TrimStart(_)
TrimStart(s) == IF s # <<>> /\ IsSpace(Head(s)) THEN TrimStart(Tail(s)) ELSE s

RECURSIVE TrimEnd(_)
TrimEnd(s) ==
  IF s # <<>> /\ IsSpace(s[Len(s)]) THEN TrimEnd(SubSeq(s, 1, Len(s) - 1)) ELSE s

\* String.prototype.trim
trim(s) == TrimEnd(TrimStart(s))

\* s.split(/\s+/): the maximal runs between whitespace runs; a leading or a
\* trailing whitespace run leaves an empty string at that end.
RECURSIVE SplitFrom(_, _, _)
SplitFrom(s, cur, inSpace) ==
  IF s = <<>> THEN <<cur>>
  ELSE IF IsSpace(Head(s))
       THEN IF inSpace THEN SplitFrom(Tail(s), cur, TRUE)
            ELSE <<cur>> \o SplitFrom(Tail(s), <<>>, TRUE)
       ELSE SplitFrom(Tail(s), Append(cur, Head(s)), FALSE)

splitWhitespace(s) == SplitFrom(s, <<>>, FALSE)

Range(f) == {f[i] : i \in DOMAIN f}

(***************************************************************************)
(* Similarity utilities (detect.ts:18-73)                                  *)
(***************************************************************************)
textsAreDifferent(a, b) ==
  LET aSv == trim(OrEmpty(a.sv))
      bSv == trim(OrEmpty(b.sv))
      aEn == trim(OrEmpty(a.en))
      bEn == trim(OrEmpty(b.en))
  IN  aSv # bSv \/ aEn # bEn

\* text.sv?.trim() is truthy
TruthyTrim(v) == ~IsNullish(v) /\ trim(v) # <<>>

hasContent(text) == TruthyTrim(text.sv) \/ TruthyTrim(text.en)

\* new Set(a.toLowerCase().split(/\s+/).filter(w => w.length > 2))
Words(s) == {w \in Range(splitWhitespace(toLowerCase(s))) : Len(w) > 2}

\* Rational numbers are pairs <<numerator, denominator>>, denominator > 0.
RatLeq(p, q) == p[1] * q[2] <= q[1] * p[2]

RatLess(p, q) == p[1] * q[2] < q[1] * p[2]

RatEq(p, q) == p[1] * q[2] = q[1] * p[2]

stringSimilarity(a, b) ==
  IF Falsy(a) /\ Falsy(b) THEN <<1, 1>>
  ELSE IF Falsy(a) \/ Falsy(b) THEN <<0, 1>>
  ELSE LET wordsA == Words(a)
           wordsB == Words(b)
       IN  IF wordsA = {} /\ wordsB = {} THEN <<1, 1>>
           ELSE IF wordsA = {} \/ wordsB = {} THEN <<0, 1>>
           ELSE <<Cardinality(wordsA \cap wordsB), Cardinality(wordsA \cup wordsB)>>

\* new Date(iso).getTime(), in months relative to 1970-01
ParseDate(d) ==
  CASE d = "1969-06" -> -7
    [] d = "2020-01" -> 600
    [] d = "2020-02" -> 601
    [] d = "2021-01" -> 612
    [] d = "2021-02" -> 613
    [] d = "2030-01" -> 720

\* start ? new Date(start) : null
DateTruthy(d) == d # NullDate /\ d # ""

dateRangesOverlap(start1, end1, start2, end2, clock) ==
  LET e1 == IF DateTruthy(end1) THEN ParseDate(end1) ELSE clock
      e2 == IF DateTruthy(end2) THEN ParseDate(end2) ELSE clock
  IN  IF ~DateTruthy(start1) \/ ~DateTruthy(start2) THEN FALSE
      ELSE ParseDate(start1) <= e2 /\ ParseDate(start2) <= e1

(***************************************************************************)
(* Entity matcher (detect.ts:75-186)                                       *)
(***************************************************************************)
RatAdd(p, q) == <<p[1] * q[2] + q[1] * p[2], p[2] * q[2]>>

RatScale(p, k) == <<p[1] * k, p[2]>>

RatDiv(p, k) == <<p[1], p[2] * k>>

Half == <<1, 2>>

OverlapWeight == 3

TitleWeight == 2

CompanyWeight == 2

ExactDateWeight == 1

\* a score whose exact-date bonus is a whole point for each equal date
calculateRoleMatchScoreWholeBonus(current, incoming, clock) ==
  IF current.id = incoming.id THEN <<1, 1>>
  ELSE
    LET s0 == IF dateRangesOverlap(current.start, current.end,
                                   incoming.start, incoming.end, clock)
              THEN <<OverlapWeight, 1>> ELSE <<0, 1>>
        s1 == RatAdd(s0, RatScale(stringSimilarity(current.title, incoming.title),
                                  TitleWeight))
        s2 == RatAdd(s1, RatScale(stringSimilarity(current.company, incoming.company),
                                  CompanyWeight))
        s3 == IF current.start = incoming.start THEN RatAdd(s2, <<1, 1>>) ELSE s2
        s4 == IF current.end = incoming.end \/ (current.isCurrent /\ incoming.isCurrent)
              THEN RatAdd(s3, <<1, 1>>) ELSE s3
    IN  RatDiv(s4, OverlapWeight + TitleWeight + CompanyWeight + ExactDateWeight)

calculateRoleMatchScore(current, incoming, clock) ==
  IF current.id = incoming.id THEN <<1, 1>>
  ELSE
    LET s0 == IF dateRangesOverlap(current.start, current.end,
                                   incoming.start, incoming.end, clock)
              THEN <<OverlapWeight, 1>> ELSE <<0, 1>>
        titleSim == stringSimilarity(current.title, incoming.title)
        s1 == RatAdd(s0, RatScale(titleSim, TitleWeight))
        companySim == stringSimilarity(current.company, incoming.company)
        s2 == RatAdd(s1, RatScale(companySim, CompanyWeight))
        s3 == IF current.start = incoming.start THEN RatAdd(s2, Half) ELSE s2
        s4 == IF current.end = incoming.end \/ (current.isCurrent /\ incoming.isCurrent)
              THEN RatAdd(s3, Half) ELSE s3
        weights == OverlapWeight + TitleWeight + CompanyWeight + ExactDateWeight
    IN  RatDiv(s4, weights)

\* new Set(role.skills.map(s => s.name.toLowerCase()))
SkillNameSet(skills) == {toLowerCase(skills[i].name) : i \in DOMAIN skills}

rolesAreDifferent(current, incoming) ==
  \/ current.title # incoming.title
  \/ current.company # incoming.company
  \/ current.location # incoming.location
  \/ current.start # incoming.start
  \/ current.end # incoming.end
  \/ current.isCurrent # incoming.isCurrent
  \/ current.visible # incoming.visible
  \/ textsAreDifferent(current.description, incoming.description)
  \/ Len(current.skills) # Len(incoming.skills)
  \/ Cardinality(SkillNameSet(current.skills)) # Cardinality(SkillNameSet(incoming.skills))
  \/ \E name \in SkillNameSet(current.skills) : name \notin SkillNameSet(incoming.skills)

skillsAreDifferent(current, incoming) ==
  current.level # incoming.level \/ current.years # incoming.years

NoEntity == [absent |-> TRUE]

\* skills.find(s => s.name.toLowerCase() === normalizedName)
RECURSIVE FindSkillFrom(_, _, _)
FindSkillFrom(skills, normalizedName, i) ==
  IF i > Len(skills) THEN NoEntity
  ELSE IF toLowerCase(skills[i].name) = normalizedName THEN skills[i]
  ELSE FindSkillFrom(skills, normalizedName, i + 1)

matchSkillByName(skills, name) == FindSkillFrom(skills, toLowerCase(name), 1)

Threshold == <<1, 2>>

NoMatch == [found |-> FALSE]

ImprovesBelowThreshold(score, bestScore, threshold) == RatLess(bestScore, score)

\* a candidate that replaces the best match also when it only equals it
ImprovesOrEquals(score, bestScore, threshold) ==
  RatLeq(bestScore, score) /\ RatLeq(threshold, score)

\* detect.ts:179: the condition under which a candidate replaces the best match
Improves(score, bestScore, threshold) ==
  RatLess(bestScore, score) /\ RatLeq(threshold, score)

\* detect.ts:178-182: the best match after one more candidate
BetterMatch(best, candidate, score, threshold) ==
  IF Improves(score, IF best.found THEN best.score ELSE <<0, 1>>, threshold)
  THEN [found |-> TRUE, role |-> candidate, score |-> score]
  ELSE best

RECURSIVE BestFrom(_, _, _, _, _, _)
BestFrom(role, candidates, i, best, threshold, clock) ==
  IF i > Len(candidates) THEN best
  ELSE BestFrom(role, candidates, i + 1,
                BetterMatch(best, candidates[i],
                            calculateRoleMatchScore(role, candidates[i], clock),
                            threshold),
                threshold, clock)

findBestRoleMatch(role, candidates, clock) ==
  BestFrom(role, candidates, 1, NoMatch, Threshold, clock)

(***************************************************************************)
(* Conflict detector (detect.ts:191-348)                                   *)
(***************************************************************************)
\* a text conflict whenever the two records are not the same value
TextConflictForUntrimmed(field, cur, inc) ==
  IF cur # inc /\ (hasContent(cur) \/ hasContent(inc))
  THEN [id |-> <<field>>, type |-> "modified", section |-> field,
        current |-> cur, incoming |-> inc]
  ELSE NoEntity

\* detect.ts:209-220 and 223-233
TextConflictFor(field, cur, inc) ==
  IF textsAreDifferent(cur, inc) /\ (hasContent(cur) \/ hasContent(inc))
  THEN [id |-> <<field>>, type |-> "modified", section |-> field,
        current |-> cur, incoming |-> inc]
  ELSE NoEntity

\* detect.ts:192-206 and 236-237, 290: the conflicts and stats objects and the
\* sets of matched ids and names, before the first loop
DetectState ==
  [matchedCurrentRoles |-> {}, matchedIncomingRoles |-> {}, matchedIncomingSkills |-> {},
   roles |-> <<>>, skills |-> <<>>,
   rolesModified |-> 0, rolesAdded |-> 0, rolesRemoved |-> 0,
   skillsModified |-> 0, skillsAdded |-> 0, skillsRemoved |-> 0]

\* a step that does not record which incoming role was matched
RoleMatchStepForgettingIncoming(acc, currentRole, match) ==
  IF ~match.found THEN acc
  ELSE IF rolesAreDifferent(currentRole, match.role)
  THEN [acc EXCEPT
          !.matchedCurrentRoles = @ \cup {currentRole.id},
          !.roles = Append(@, [id |-> <<"role-">> \o currentRole.id,
                               type |-> "modified", section |-> "role",
                               current |-> currentRole, incoming |-> match.role,
                               matchScore |-> match.score]),
          !.rolesModified = @ + 1]
  ELSE [acc EXCEPT !.matchedCurrentRoles = @ \cup {currentRole.id}]

\* a matcher that gives an incoming role to one current role at most
RoleMatchStepExclusive(acc, currentRole, match) ==
  IF ~match.found \/ match.role.id \in acc.matchedIncomingRoles THEN acc
  ELSE IF rolesAreDifferent(currentRole, match.role)
  THEN [acc EXCEPT
          !.matchedCurrentRoles = @ \cup {currentRole.id},
          !.matchedIncomingRoles = @ \cup {match.role.id},
          !.roles = Append(@, [id |-> <<"role-">> \o currentRole.id,
                               type |-> "modified", section |-> "role",
                               current |-> currentRole, incoming |-> match.role,
                               matchScore |-> match.score]),
          !.rolesModified = @ + 1]
  ELSE [acc EXCEPT
          !.matchedCurrentRoles = @ \cup {currentRole.id},
          !.matchedIncomingRoles = @ \cup {match.role.id}]

\* detect.ts:243-258: what one current role and its best match leave behind
RoleMatchStep(acc, currentRole, match) ==
  IF ~match.found THEN acc
  ELSE IF rolesAreDifferent(currentRole, match.role)
  THEN [acc EXCEPT
          !.matchedCurrentRoles = @ \cup {currentRole.id},
          !.matchedIncomingRoles = @ \cup {match.role.id},
          !.roles = Append(@, [id |-> <<"role-">> \o currentRole.id,
                               type |-> "modified", section |-> "role",
                               current |-> currentRole, incoming |-> match.role,
                               matchScore |-> match.score]),
          !.rolesModified = @ + 1]
  ELSE [acc EXCEPT
          !.matchedCurrentRoles = @ \cup {currentRole.id},
          !.matchedIncomingRoles = @ \cup {match.role.id}]

\* detect.ts:240-259: one pass over the current roles, each matched against
\* all the incoming roles
RECURSIVE MatchRolesFrom(_, _, _, _, _)
MatchRolesFrom(currentRoles, incomingRoles, i, acc, clock) ==
  IF i > Len(currentRoles) THEN acc
  ELSE MatchRolesFrom(currentRoles, incomingRoles, i + 1,
                      RoleMatchStep(acc, currentRoles[i],
                                    findBestRoleMatch(currentRoles[i], incomingRoles,
                                                      clock)),
                      clock)

\* detect.ts:262-273
RECURSIVE RemovedRolesFrom(_, _, _)
RemovedRolesFrom(currentRoles, i, acc) ==
  IF i > Len(currentRoles) THEN acc
  ELSE IF currentRoles[i].id \notin acc.matchedCurrentRoles
  THEN RemovedRolesFrom(currentRoles, i + 1,
         [acc EXCEPT
            !.roles = Append(@, [id |-> <<"role-", "removed-">> \o currentRoles[i].id,
                                 type |-> "removed", section |-> "role",
                                 current |-> currentRoles[i], incoming |-> NoEntity]),
            !.rolesRemoved = @ + 1])
  ELSE RemovedRolesFrom(currentRoles, i + 1, acc)

\* detect.ts:276-287
RECURSIVE AddedRolesFrom(_, _, _)
AddedRolesFrom(incomingRoles, i, acc) ==
  IF i > Len(incomingRoles) THEN acc
  ELSE IF incomingRoles[i].id \notin acc.matchedIncomingRoles
  THEN AddedRolesFrom(incomingRoles, i + 1,
         [acc EXCEPT
            !.roles = Append(@, [id |-> <<"role-", "added-">> \o incomingRoles[i].id,
                                 type |-> "added", section |-> "role",
                                 current |-> NoEntity, incoming |-> incomingRoles[i]]),
            !.rolesAdded = @ + 1])
  ELSE AddedRolesFrom(incomingRoles, i + 1, acc)

\* detect.ts:294-319: what one current skill and the incoming skill of its
\* name leave behind
SkillMatchStep(acc, currentSkill, incomingSkill) ==
  IF incomingSkill # NoEntity
  THEN IF skillsAreDifferent(currentSkill, incomingSkill)
       THEN [acc EXCEPT
               !.matchedIncomingSkills = @ \cup {toLowerCase(incomingSkill.name)},
               !.skills = Append(@, [id |-> <<"skill-">> \o currentSkill.id,
                                     type |-> "modified", section |-> "skill",
                                     current |-> currentSkill,
                                     incoming |-> incomingSkill]),
               !.skillsModified = @ + 1]
       ELSE [acc EXCEPT
               !.matchedIncomingSkills = @ \cup {toLowerCase(incomingSkill.name)}]
  ELSE [acc EXCEPT
          !.skills = Append(@, [id |-> <<"skill-", "removed-">> \o currentSkill.id,
                                type |-> "removed", section |-> "skill",
                                current |-> currentSkill, incoming |-> NoEntity]),
          !.skillsRemoved = @ + 1]

\* detect.ts:293-320
RECURSIVE MatchSkillsFrom(_, _, _, _)
MatchSkillsFrom(currentSkills, incomingSkills, i, acc) ==
  IF i > Len(currentSkills) THEN acc
  ELSE MatchSkillsFrom(currentSkills, incomingSkills, i + 1,
                       SkillMatchStep(acc, currentSkills[i],
                                      matchSkillByName(incomingSkills,
                                                       currentSkills[i].name)))

\* detect.ts:323-334
RECURSIVE AddedSkillsFrom(_, _, _)
AddedSkillsFrom(incomingSkills, i, acc) ==
  IF i > Len(incomingSkills) THEN acc
  ELSE IF toLowerCase(incomingSkills[i].name) \notin acc.matchedIncomingSkills
  THEN AddedSkillsFrom(incomingSkills, i + 1,
         [acc EXCEPT
            !.skills = Append(@, [id |-> <<"skill-", "added-">> \o incomingSkills[i].id,
                                  type |-> "added", section |-> "skill",
                                  current |-> NoEntity, incoming |-> incomingSkills[i]]),
            !.skillsAdded = @ + 1])
  ELSE AddedSkillsFrom(incomingSkills, i + 1, acc)

TotalConflictsWithoutSummary(conflicts) ==
  (IF conflicts.title # NoEntity THEN 1 ELSE 0)
    + Len(conflicts.roles) + Len(conflicts.skills)

\* detect.ts:336-340
TotalConflicts(conflicts) ==
  (IF conflicts.title # NoEntity THEN 1 ELSE 0)
    + (IF conflicts.summary # NoEntity THEN 1 ELSE 0)
    + Len(conflicts.roles) + Len(conflicts.skills)

\* detect.ts:336-347: the analysis returned
Analysis(conflicts, totalConflicts, acc) ==
  [hasConflicts |-> totalConflicts > 0,
   totalConflicts |-> totalConflicts,
   conflicts |-> conflicts,
   stats |-> [rolesModified |-> acc.rolesModified,
              rolesAdded |-> acc.rolesAdded,
              rolesRemoved |-> acc.rolesRemoved,
              skillsModified |-> acc.skillsModified,
              skillsAdded |-> acc.skillsAdded,
              skillsRemoved |-> acc.skillsRemoved]]

\* detect.ts:208-233 and 342-347: the text conflicts joined to what the loops left
AnalysisOf(title, summary, acc) ==
  Analysis([title |-> title, summary |-> summary,
            roles |-> acc.roles, skills |-> acc.skills],
           TotalConflicts([title |-> title, summary |-> summary,
                           roles |-> acc.roles, skills |-> acc.skills]),
           acc)

detectConflicts(current, incoming, clock) ==
  AnalysisOf(
    TextConflictFor("title", current.title, incoming.title),
    TextConflictFor("summary", current.summary, incoming.summary),
    AddedSkillsFrom(incoming.skills, 1,
      MatchSkillsFrom(current.skills, incoming.skills, 1,
        AddedRolesFrom(incoming.roles, 1,
          RemovedRolesFrom(current.roles, 1,
            MatchRolesFrom(current.roles, incoming.roles, 1, DetectState, clock))))))

(***************************************************************************)
(* Merge engine (index.ts:57-300)                                          *)
(***************************************************************************)
LookupOrAccept(map, id) == IF id \in DOMAIN map THEN map[id] ELSE "accept"

\* resolutions[conflict.id]
Lookup(map, id) == IF id \in DOMAIN map THEN map[id] ELSE "undefined"

\* index.ts:145 and 213: resolution === 'accept' on a modified conflict
TakesIncoming(resolution) == resolution = "accept"

AddsIncomingUnlessSkip(resolution) == resolution # "skip"

\* index.ts:156 and 229: resolution === 'accept' on an added conflict
AddsIncoming(resolution) == resolution = "accept"

KeepsRemovedOnlyOnKeep(resolution) == resolution = "keep"

\* index.ts:166 and 237: resolution !== 'accept' on a removed conflict
KeepsRemoved(resolution) == resolution # "accept"

\* index.ts:140-172: what one conflict adds to the result and to the handled sets
ApplyRoleConflict(acc, conflict, resolution) ==
  IF conflict.type = "modified" THEN
    [handledCurrentIds |->
       IF conflict.current # NoEntity
       THEN acc.handledCurrentIds \cup {conflict.current.id} ELSE acc.handledCurrentIds,
     handledIncomingIds |->
       IF conflict.incoming # NoEntity
       THEN acc.handledIncomingIds \cup {conflict.incoming.id}
       ELSE acc.handledIncomingIds,
     result |->
       IF TakesIncoming(resolution) /\ conflict.incoming # NoEntity
       THEN Append(acc.result, conflict.incoming)
       ELSE IF conflict.current # NoEntity THEN Append(acc.result, conflict.current)
       ELSE acc.result]
  ELSE IF conflict.type = "added" THEN
    IF conflict.incoming # NoEntity
    THEN [acc EXCEPT
            !.handledIncomingIds = @ \cup {conflict.incoming.id},
            !.result = IF AddsIncoming(resolution) THEN Append(@, conflict.incoming)
                       ELSE @]
    ELSE acc
  ELSE IF conflict.type = "removed" THEN
    IF conflict.current # NoEntity
    THEN [acc EXCEPT
            !.handledCurrentIds = @ \cup {conflict.current.id},
            !.result = IF KeepsRemoved(resolution) THEN Append(@, conflict.current)
                       ELSE @]
    ELSE acc
  ELSE acc

RECURSIVE RoleConflictsFrom(_, _, _, _)
RoleConflictsFrom(conflicts, resolutions, i, acc) ==
  IF i > Len(conflicts) THEN acc
  ELSE RoleConflictsFrom(conflicts, resolutions, i + 1,
         ApplyRoleConflict(acc, conflicts[i], Lookup(resolutions, conflicts[i].id)))

\* index.ts:176-180 and 245-249: the current entities no conflict handled
RECURSIVE Unhandled(_, _, _)
Unhandled(entities, handledIds, i) ==
  IF i > Len(entities) THEN <<>>
  ELSE (IF entities[i].id \notin handledIds THEN <<entities[i]>> ELSE <<>>)
       \o Unhandled(entities, handledIds, i + 1)

\* a.start ? new Date(a.start).getTime() : 0
StartTime(role) == IF DateTruthy(role.start) THEN ParseDate(role.start) ELSE 0

\* index.ts:183-187: the comparator, negative when a sorts before b
CompareRoles(a, b) == StartTime(b) - StartTime(a)

\* lexicographic comparison of two sequences of weights: -1, 0 or 1
RECURSIVE LexCompare(_, _)
LexCompare(a, b) ==
  IF a = <<>> /\ b = <<>> THEN 0
  ELSE IF a = <<>> THEN -1
  ELSE IF b = <<>> THEN 1
  ELSE IF Head(a) < Head(b) THEN -1
  ELSE IF Head(a) > Head(b) THEN 1
  ELSE LexCompare(Tail(a), Tail(b))

Alphabet == <<" ", "a", "b", "c", "d", "e", "f", "g", "h", "i", "j", "k", "l", "m",
              "n", "o", "p", "q", "r", "s", "t", "u", "v", "w", "x", "y", "z">>

\* the primary (letter) weight of a character, case ignored
PrimaryRank(c) == CHOOSE k \in DOMAIN Alphabet : Alphabet[k] = LowerChar(c)

\* the tertiary (case) weight: lower case before upper case
CaseRank(c) == IF c \in DOMAIN UpperToLower THEN 1 ELSE 0

\* String.prototype.localeCompare
localeCompare(a, b) ==
  LET primary == LexCompare([i \in DOMAIN a |-> PrimaryRank(a[i])],
                            [i \in DOMAIN b |-> PrimaryRank(b[i])])
  IN  IF primary # 0 THEN primary
      ELSE LexCompare([i \in DOMAIN a |-> CaseRank(a[i])],
                      [i \in DOMAIN b |-> CaseRank(b[i])])

\* index.ts:252
CompareSkills(a, b) == localeCompare(a.name, b.name)

\* the comparator handed to sort, by the list it sorts
Compare(kind, a, b) == IF kind = "role" THEN CompareRoles(a, b) ELSE CompareSkills(a, b)

\* Array.prototype.sort is stable: an insertion sort that puts each element
\* after the elements that do not compare greater than it
RECURSIVE InsertSorted(_, _, _)
InsertSorted(sorted, x, kind) ==
  IF sorted = <<>> THEN <<x>>
  ELSE IF Compare(kind, x, Head(sorted)) < 0 THEN <<x>> \o sorted
  ELSE <<Head(sorted)>> \o InsertSorted(Tail(sorted), x, kind)

RECURSIVE SortFrom(_, _, _, _)
SortFrom(seq, i, sorted, kind) ==
  IF i > Len(seq) THEN sorted
  ELSE SortFrom(seq, i + 1, InsertSorted(sorted, seq[i], kind), kind)

StableSort(seq, kind) == SortFrom(seq, 1, <<>>, kind)

applyRoleResolutions(currentRoles, incomingRoles, conflicts, resolutions) ==
  LET done == RoleConflictsFrom(conflicts, resolutions, 1,
                [result |-> <<>>, handledCurrentIds |-> {}, handledIncomingIds |-> {}])
      result == done.result \o Unhandled(currentRoles, done.handledCurrentIds, 1)
  IN  StableSort(result, "role")

AcceptedSkillAsImported(conflict) == conflict.incoming

\* index.ts:215-220: the incoming skill with the current skill's overrides
AcceptedSkill(conflict) ==
  [conflict.incoming EXCEPT
     !.overriddenYears = IF conflict.current # NoEntity
                         THEN conflict.current.overriddenYears ELSE UndefinedNum,
     !.calculatedYears = IF conflict.current # NoEntity
                         THEN conflict.current.calculatedYears ELSE UndefinedNum]

\* index.ts:209-241
ApplySkillConflict(acc, conflict, resolution) ==
  IF conflict.type = "modified" THEN
    [handledCurrentIds |->
       IF conflict.current # NoEntity
       THEN acc.handledCurrentIds \cup {conflict.current.id} ELSE acc.handledCurrentIds,
     handledIncomingNames |->
       IF conflict.incoming # NoEntity
       THEN acc.handledIncomingNames \cup {toLowerCase(conflict.incoming.name)}
       ELSE acc.handledIncomingNames,
     result |->
       IF TakesIncoming(resolution) /\ conflict.incoming # NoEntity
       THEN Append(acc.result, AcceptedSkill(conflict))
       ELSE IF conflict.current # NoEntity THEN Append(acc.result, conflict.current)
       ELSE acc.result]
  ELSE IF conflict.type = "added" THEN
    IF conflict.incoming # NoEntity
    THEN [acc EXCEPT
            !.handledIncomingNames = @ \cup {toLowerCase(conflict.incoming.name)},
            !.result = IF AddsIncoming(resolution) THEN Append(@, conflict.incoming)
                       ELSE @]
    ELSE acc
  ELSE IF conflict.type = "removed" THEN
    IF conflict.current # NoEntity
    THEN [acc EXCEPT
            !.handledCurrentIds = @ \cup {conflict.current.id},
            !.result = IF KeepsRemoved(resolution) THEN Append(@, conflict.current)
                       ELSE @]
    ELSE acc
  ELSE acc

RECURSIVE SkillConflictsFrom(_, _, _, _)
SkillConflictsFrom(conflicts, resolutions, i, acc) ==
  IF i > Len(conflicts) THEN acc
  ELSE SkillConflictsFrom(conflicts, resolutions, i + 1,
         ApplySkillConflict(acc, conflicts[i], Lookup(resolutions, conflicts[i].id)))

applySkillResolutions(currentSkills, incomingSkills, conflicts, resolutions) ==
  LET done == SkillConflictsFrom(conflicts, resolutions, 1,
                [result |-> <<>>, handledCurrentIds |-> {}, handledIncomingNames |-> {}])
      result == done.result \o Unhandled(currentSkills, done.handledCurrentIds, 1)
  IN  StableSort(result, "skill")

\* index.ts:63-66
hasAnyContacts(cv) ==
  /\ cv.contacts # NoEntity
  /\ \/ ~Falsy(cv.contacts.email)
     \/ ~Falsy(cv.contacts.phone)
     \/ ~Falsy(cv.contacts.address)
     \/ ~Falsy(cv.contacts.website)

\* the incoming contacts taken whenever there are any
FillsContactsFromAnyIncoming(current, incoming) == hasAnyContacts(incoming)

\* index.ts:79: the condition under which the incoming contacts are taken
FillsContacts(current, incoming) == ~hasAnyContacts(current) /\ hasAnyContacts(incoming)

\* new Date().toISOString()
toISOString(clock) == <<"iso", clock>>

\* { ...text } (index.ts:72-73, 89, 97): the own properties of the value; a
\* string primitive has its characters under index keys and no sv or en
Spread(text) ==
  IF "primitive" \in DOMAIN text THEN [indexed |-> text.primitive] ELSE text

\* index.ts:87-92 and 95-99
\* a merge that takes the incoming text on accept, conflict or not
ResolveTextWithoutConflict(conflict, resolution, cur, inc) ==
  IF resolution = "accept" THEN Spread(inc) ELSE Spread(cur)

ResolveText(conflict, resolution, cur, inc) ==
  IF conflict # NoEntity /\ resolution # "undefined" /\ resolution = "accept"
  THEN Spread(inc) ELSE Spread(cur)

mergeWithResolutions(current, incoming, analysis, resolutions, clock) ==
  [current EXCEPT
     !.contacts = IF FillsContacts(current, incoming)
                  THEN incoming.contacts ELSE @,
     !.photoDataUrl = IF Falsy(current.photoDataUrl) /\ ~Falsy(incoming.photoDataUrl)
                      THEN incoming.photoDataUrl ELSE @,
     !.title = ResolveText(analysis.conflicts.title, resolutions.title,
                           current.title, incoming.title),
     !.summary = ResolveText(analysis.conflicts.summary, resolutions.summary,
                             current.summary, incoming.summary),
     !.roles = applyRoleResolutions(current.roles, incoming.roles,
                                    analysis.conflicts.roles, resolutions.roles),
     !.skills = applySkillResolutions(current.skills, incoming.skills,
                                      analysis.conflicts.skills, resolutions.skills),
     !.updatedAt = toISOString(clock)]

\* index.ts:260-286
RECURSIVE DefaultsFrom(_, _, _, _)
DefaultsFrom(conflicts, defaultChoice, i, map) ==
  IF i > Len(conflicts) THEN map
  ELSE DefaultsFrom(conflicts, defaultChoice, i + 1,
                    (conflicts[i].id :> defaultChoice) @@ map)

EmptyMap == [k \in {} |-> "undefined"]

\* resolutions for the text and role conflicts only
createDefaultResolutionsWithoutSkills(analysis, defaultChoice) ==
  [title |-> IF analysis.conflicts.title # NoEntity THEN defaultChoice ELSE "undefined",
   summary |-> IF analysis.conflicts.summary # NoEntity THEN defaultChoice
               ELSE "undefined",
   roles |-> DefaultsFrom(analysis.conflicts.roles, defaultChoice, 1, EmptyMap),
   skills |-> EmptyMap]

createDefaultResolutions(analysis, defaultChoice) ==
  [title |-> IF analysis.conflicts.title # NoEntity THEN defaultChoice ELSE "undefined",
   summary |-> IF analysis.conflicts.summary # NoEntity THEN defaultChoice
               ELSE "undefined",
   roles |-> DefaultsFrom(analysis.conflicts.roles, defaultChoice, 1, EmptyMap),
   skills |-> DefaultsFrom(analysis.conflicts.skills, defaultChoice, 1, EmptyMap)]

acceptAllIncoming(analysis) == createDefaultResolutions(analysis, "accept")

keepAllCurrent(analysis) == createDefaultResolutions(analysis, "keep")

(***************************************************************************)
(* Snapshots the engine is run on                                          *)
(***************************************************************************)
MaxRoles == 2

MaxSkills == 2

Text(sv, en) == [sv |-> sv, en |-> en]

NoText == Text(Null, Null)

Dev == <<"D", "e", "v">>

DevOps == <<"D", "e", "v", " ", "o", "p", "s">>

Ops == <<"O", "p", "s">>

QA == <<"Q", "A">>

Acme == <<"A", "c", "m", "e">>

Oslo == <<"O", "s", "l", "o">>

Utvecklare == <<"U", "t", "v">>

Developer == <<"D", "e", "v">>

RoleSkillTs == [id |-> <<"k1">>, name |-> <<"T", "S">>, level |-> NullNum, category |-> Null]

Role(id, title, company, location, start, end, isCurrent, skills) ==
  [id |-> id, title |-> title, company |-> company, location |-> location,
   start |-> start, end |-> end, isCurrent |-> isCurrent,
   description |-> NoText, skills |-> skills, visible |-> TRUE]

\* Dev at Acme, 2020-01 to 2021-01
RoleA(id) == Role(id, Dev, Acme, Null, "2020-01", "2021-01", FALSE, <<>>)

\* the same role with its dates shifted by one month
RoleB(id) == Role(id, Dev, Acme, Null, "2020-02", "2021-02", FALSE, <<>>)

\* the same title, company and dates as RoleA, in another location
RoleC(id) == Role(id, Dev, Acme, Oslo, "2020-01", "2021-01", FALSE, <<>>)

\* an ongoing role that started before 1970, with a technology tag
RoleD(id) == Role(id, QA, Null, Null, "1969-06", NullDate, TRUE, <<RoleSkillTs>>)

\* half of the title words of RoleA
RoleE(id) == Role(id, DevOps, Acme, Null, "2020-01", "2021-01", FALSE, <<RoleSkillTs>>)

\* no title, no company, no dates
RoleF(id) == Role(id, Null, Null, Null, NullDate, NullDate, FALSE, <<>>)

\* the dates of RoleA and nothing else of it: scores exactly the threshold
RoleH(id) == Role(id, Ops, Null, Null, "2020-01", "2021-01", FALSE, <<>>)

\* an ongoing role that starts in 2030, after the earlier of the two instants
RoleG(id) == Role(id, Ops, Null, Null, "2030-01", NullDate, TRUE, <<>>)

CurrentRolePool == {RoleA(<<"1">>), RoleB(<<"2">>), RoleC(<<"2">>), RoleD(<<"2">>)}

IncomingRolePool ==
  {RoleA(<<"1">>), RoleB(<<"1">>), RoleF(<<"1">>), RoleC(<<"2">>),
   RoleB(<<"3">>), RoleE(<<"3">>), RoleH(<<"3">>), RoleD(<<"3">>)}

Skill(id, name, level, years, calculatedYears, overriddenYears) ==
  [id |-> id, name |-> name, level |-> level, years |-> years,
   calculatedYears |-> calculatedYears, overriddenYears |-> overriddenYears]

GoName == <<"G", "o">>

goName == <<"g", "o">>

TsName == <<"T", "S">>

CName == <<"C">>

CurrentSkillPool ==
  {Skill(<<"a">>, GoName, 3, 3, NullNum, NullNum),
   Skill(<<"b">>, goName, 2, 3, 4, 7),
   Skill(<<"b">>, TsName, 1, NullNum, UndefinedNum, UndefinedNum)}

IncomingSkillPool ==
  {Skill(<<"a">>, GoName, 3, 3, NullNum, NullNum),
   Skill(<<"a">>, GoName, 3, 5, 9, 8),
   Skill(<<"b">>, goName, 2, 3, 4, 7),
   Skill(<<"c">>, goName, 3, 3, NullNum, NullNum),
   Skill(<<"d">>, CName, 1, 1, NullNum, NullNum)}

\* the lists of at most n entities of a pool, no id twice in a list
Lists(pool, n) ==
  {l \in UNION {[1..k -> pool] : k \in 0..n} :
     \A i, j \in DOMAIN l : i # j => l[i].id # l[j].id}

TextPool ==
  {NoText, Text(Utvecklare, Null), Text(Utvecklare, Developer),
   Text(Utvecklare \o <<" ">>, Null), Text(<<>>, Null)}

Contacts(email) == [email |-> email, phone |-> Null, address |-> Null, website |-> Null]

Mail1 == <<"a", "@", "b">>

Mail2 == <<"c", "@", "d">>

Photo1 == <<"p", "1">>

Photo2 == <<"p", "2">>

ExtrasPool ==
  {[contacts |-> NoEntity, photoDataUrl |-> Null],
   [contacts |-> Contacts(Null), photoDataUrl |-> <<>>],
   [contacts |-> Contacts(Mail1), photoDataUrl |-> Photo1],
   [contacts |-> Contacts(Mail2), photoDataUrl |-> Photo2]}

Doc(title, summary, extras, roles, skills) ==
  [id |-> <<"cv">>, name |-> [first |-> <<"N">>, last |-> Null],
   title |-> title, summary |-> summary,
   contacts |-> extras.contacts, photoDataUrl |-> extras.photoDataUrl,
   roles |-> roles, skills |-> skills, updatedAt |-> Null]

NoExtras == [contacts |-> NoEntity, photoDataUrl |-> Null]

BareDoc(roles, skills) == Doc(Text(Utvecklare, Null), NoText, NoExtras, roles, skills)

\* pairs <<current, incoming>> that vary the roles
RoleScenarios ==
  {<<BareDoc(cr, <<>>), BareDoc(ir, <<>>)>> :
     cr \in Lists(CurrentRolePool, MaxRoles), ir \in Lists(IncomingRolePool, MaxRoles)}

\* pairs that vary the skills
SkillScenarios ==
  {<<BareDoc(<<>>, cs), BareDoc(<<>>, is)>> :
     cs \in Lists(CurrentSkillPool, MaxSkills), is \in Lists(IncomingSkillPool, MaxSkills)}

\* pairs that vary the title, the summary, the contacts and the photo
TextScenarios ==
  {<<Doc(ct, cs, ce, <<>>, <<>>), Doc(it, is, ie, <<>>, <<>>)>> :
     ct \in TextPool, it \in TextPool,
     cs \in {NoText, Text(Null, Developer)}, is \in {NoText, Text(Null, Developer)},
     ce \in ExtrasPool, ie \in ExtrasPool}

\* pairs with conflicts in several sections at once
MixedScenarios ==
  {<<Doc(Text(Utvecklare, Null), cs, NoExtras, <<RoleA(<<"1">>)>>, ck),
     Doc(Text(Utvecklare, Developer), NoText, NoExtras, <<RoleB(<<"3">>)>>, ik)>> :
     cs \in {NoText, Text(Null, Developer)},
     ck \in Lists(CurrentSkillPool, 1),
     ik \in {<<Skill(<<"a">>, GoName, 3, 5, 9, 8)>>}}

\* pairs with ongoing roles, one of them starting between the two instants
ClockScenarios ==
  {<<BareDoc(cr, <<>>), BareDoc(ir, <<>>)>> :
     cr \in Lists({RoleA(<<"1">>), RoleD(<<"2">>)}, MaxRoles),
     ir \in Lists({RoleG(<<"3">>), RoleD(<<"2">>)}, MaxRoles)}

Scenarios ==
  RoleScenarios \cup SkillScenarios \cup TextScenarios \cup MixedScenarios
    \cup ClockScenarios

\* a string where a bilingual text is expected: reading .sv or .en of it
\* gives undefined (detect.ts:22-23 and 31 read the two properties only)
PrimitiveText(s) == [sv |-> Undefined, en |-> Undefined, primitive |-> s]

\* roles and skills without an id (part_003:44 and 90 declare id: string,
\* which nothing checks when a snapshot is parsed)
InvalidCurrentRolePool == {RoleA(Undefined), RoleC(<<"2">>)}

InvalidIncomingRolePool == {RoleF(Undefined), RoleA(Undefined), RoleB(<<"3">>)}

InvalidCurrentSkillPool ==
  {Skill(Undefined, GoName, 3, 3, NullNum, NullNum),
   Skill(<<"b">>, TsName, 1, NullNum, UndefinedNum, UndefinedNum)}

InvalidIncomingSkillPool ==
  {Skill(Undefined, CName, 1, 1, NullNum, NullNum),
   Skill(<<"c">>, goName, 2, 3, NullNum, NullNum)}

InvalidTextPool == {PrimitiveText(Dev), Text(Utvecklare, Null)}

\* a snapshot with an entity without id or a text that is no two-locale record
Invalid(doc) ==
  \/ \E i \in DOMAIN doc.roles : IsNullish(doc.roles[i].id)
  \/ \E i \in DOMAIN doc.skills : IsNullish(doc.skills[i].id)
  \/ DOMAIN doc.title # {"sv", "en"}
  \/ DOMAIN doc.summary # {"sv", "en"}

\* pairs <<current, incoming>> of which one at least is invalid, of the
\* shapes the engine runs through without a TypeError
InvalidScenarios ==
  {s \in
     {<<BareDoc(cr, <<>>), BareDoc(ir, <<>>)>> :
        cr \in Lists(InvalidCurrentRolePool, MaxRoles),
        ir \in Lists(InvalidIncomingRolePool, MaxRoles)}
     \cup
     {<<BareDoc(<<>>, cs), BareDoc(<<>>, is)>> :
        cs \in Lists(InvalidCurrentSkillPool, MaxSkills),
        is \in Lists(InvalidIncomingSkillPool, MaxSkills)}
     \cup
     {<<Doc(ct, NoText, NoExtras, <<>>, <<>>), Doc(it, NoText, NoExtras, <<>>, <<>>)>> :
        ct \in InvalidTextPool, it \in InvalidTextPool} :
     Invalid(s[1]) \/ Invalid(s[2])}

\* the instants new Date() may return: 2026-11 and 2031-01
Clocks == {682, 732}

Resolutions == {"keep", "accept", "skip"}

(***************************************************************************)
(* The resolver (conflict-resolver.tsx:30-116) driving the engine          *)
(***************************************************************************)
VARIABLES current, incoming, phase, analysis, resolutions, merged, heap,
          dialog, completed, pending

vars == <<current, incoming, phase, analysis, resolutions, merged, heap,
          dialog, completed, pending>>

\* the state of the import dialog and of the callers of the store, which the
\* resolver alone never touches
importVars == <<dialog, completed, pending>>

\* The arrays in memory, by the place that creates them.  current, incoming,
\* analysis and merged hold what the caller reads through its references;
\* heap holds what each array object contains after the writes so far.
InputArrays ==
  {"current.roles", "current.skills", "incoming.roles", "incoming.skills"}

\* a result that is the input array itself
ResultArrayAliased(kind) == IF kind = "role" THEN "current.roles" ELSE "current.skills"

\* index.ts:132 and 201: const result = [], the array that push and sort write
ResultArray(kind) ==
  IF kind = "role" THEN "applyRoleResolutions.result" ELSE "applySkillResolutions.result"

\* detect.ts:192-197: the arrays of the conflicts object that push writes
ConflictsArray(kind) ==
  IF kind = "role" THEN "detectConflicts.conflicts.roles"
  ELSE "detectConflicts.conflicts.skills"

\* the memory after one array is given new contents
Write(mem, ref, contents) ==
  [r \in DOMAIN mem \cup {ref} |-> IF r = ref THEN contents ELSE mem[r]]

\* detect.ts:248-332: every push of detectConflicts
DetectWrites(mem, result) ==
  Write(Write(mem, ConflictsArray("role"), result.conflicts.roles),
        ConflictsArray("skill"), result.conflicts.skills)

\* index.ts:74-75, 146-187 and 221-252: the copies [...current.skills] and
\* [...current.roles], then the pushes to and the sort of each result
MergeWrites(mem, cur, result) ==
  Write(Write(Write(Write(mem, "mergeWithResolutions.skills", cur.skills),
                    "mergeWithResolutions.roles", cur.roles),
              ResultArray("role"), result.roles),
        ResultArray("skill"), result.skills)

\* conflict-resolver.tsx:39-42
NoResolutions ==
  [title |-> "undefined", summary |-> "undefined", roles |-> EmptyMap, skills |-> EmptyMap]

Init ==
  /\ \E s \in Scenarios : current = s[1] /\ incoming = s[2]
  /\ phase = "imported"
  /\ analysis = NoEntity
  /\ resolutions = NoResolutions
  /\ merged = NoEntity
  /\ heap = [r \in InputArrays |->
               CASE r = "current.roles" -> current.roles
                 [] r = "current.skills" -> current.skills
                 [] r = "incoming.roles" -> incoming.roles
                 [] r = "incoming.skills" -> incoming.skills]
  /\ dialog = NoEntity
  /\ completed = <<>>
  /\ pending = <<>>

InitInvalid ==
  /\ \E s \in InvalidScenarios : current = s[1] /\ incoming = s[2]
  /\ phase = "imported"
  /\ analysis = NoEntity
  /\ resolutions = NoResolutions
  /\ merged = NoEntity
  /\ heap = [r \in InputArrays |->
               CASE r = "current.roles" -> current.roles
                 [] r = "current.skills" -> current.skills
                 [] r = "incoming.roles" -> incoming.roles
                 [] r = "incoming.skills" -> incoming.skills]
  /\ dialog = NoEntity
  /\ completed = <<>>
  /\ pending = <<>>

\* part_007:41: const analysis = detectConflicts(currentCv, result.cv)
Detect ==
  /\ phase = "imported"
  /\ \E clock \in Clocks : analysis' = detectConflicts(current, incoming, clock)
  /\ heap' = DetectWrites(heap, analysis')
  /\ resolutions' = NoResolutions
  /\ phase' = "resolving"
  /\ UNCHANGED <<current, incoming, merged>>
  /\ UNCHANGED importVars

\* conflict-resolver.tsx:81-101
setResolution(prev, section, id, resolution) ==
  IF section = "title" THEN [prev EXCEPT !.title = resolution]
  ELSE IF section = "summary" THEN [prev EXCEPT !.summary = resolution]
  ELSE IF section = "roles"
       THEN [prev EXCEPT !.roles = (id :> resolution) @@ prev.roles]
  ELSE IF section = "skills"
       THEN [prev EXCEPT !.skills = (id :> resolution) @@ prev.skills]
  ELSE prev

\* the cards the resolver renders: one per conflict of the analysis
Cards ==
  (IF analysis.conflicts.title # NoEntity THEN {<<"title", <<"title">>>>} ELSE {})
    \cup (IF analysis.conflicts.summary # NoEntity THEN {<<"summary", <<"summary">>>>}
          ELSE {})
    \cup {<<"roles", analysis.conflicts.roles[i].id>> : i \in DOMAIN analysis.conflicts.roles}
    \cup {<<"skills", analysis.conflicts.skills[i].id>> :
            i \in DOMAIN analysis.conflicts.skills}

SetResolution ==
  /\ phase = "resolving"
  /\ \E card \in Cards, resolution \in Resolutions :
       resolutions' = setResolution(resolutions, card[1], card[2], resolution)
  /\ UNCHANGED <<current, incoming, phase, analysis, merged, heap>>
  /\ UNCHANGED importVars

\* conflict-resolver.tsx:103-105
AcceptAll ==
  /\ phase = "resolving"
  /\ resolutions' = acceptAllIncoming(analysis)
  /\ UNCHANGED <<current, incoming, phase, analysis, merged, heap>>
  /\ UNCHANGED importVars

\* conflict-resolver.tsx:107-109
KeepAll ==
  /\ phase = "resolving"
  /\ resolutions' = keepAllCurrent(analysis)
  /\ UNCHANGED <<current, incoming, phase, analysis, merged, heap>>
  /\ UNCHANGED importVars

\* conflict-resolver.tsx:112-116
Apply ==
  /\ phase = "resolving"
  /\ \E clock \in Clocks :
       merged' = mergeWithResolutions(current, incoming, analysis, resolutions, clock)
  /\ heap' = MergeWrites(heap, current, merged')
  /\ phase' = "applied"
  /\ UNCHANGED <<current, incoming, analysis, resolutions>>
  /\ UNCHANGED importVars

Next == Detect \/ SetResolution \/ AcceptAll \/ KeepAll \/ Apply

Spec == Init /\ [][Next]_vars

\* the same resolver on snapshots that are structurally invalid
SpecInvalid == InitInvalid /\ [][Next]_vars

\* Role ids are strings read from the imported file (extract.ts:367,
\* part_008:41-64 checks none of them), so an id may begin with the words the
\* detector puts in front of ids (detect.ts:265 and 279).
PrefixedCurrentRolePool ==
  {RoleA(<<"removed-", "1">>), RoleA(<<"added-", "3">>), RoleD(<<"1">>)}

PrefixedIncomingRolePool == {RoleB(<<"3">>), RoleG(<<"3">>), RoleC(<<"2">>)}

PrefixedScenarios ==
  {<<BareDoc(cr, cs), BareDoc(ir, <<>>)>> :
     cr \in Lists(PrefixedCurrentRolePool, MaxRoles),
     ir \in Lists(PrefixedIncomingRolePool, MaxRoles),
     cs \in Lists(CurrentSkillPool, 1)}

InitPrefixed ==
  /\ \E s \in PrefixedScenarios : current = s[1] /\ incoming = s[2]
  /\ phase = "imported"
  /\ analysis = NoEntity
  /\ resolutions = NoResolutions
  /\ merged = NoEntity
  /\ heap = [r \in InputArrays |->
               CASE r = "current.roles" -> current.roles
                 [] r = "current.skills" -> current.skills
                 [] r = "incoming.roles" -> incoming.roles
                 [] r = "incoming.skills" -> incoming.skills]
  /\ dialog = NoEntity
  /\ completed = <<>>
  /\ pending = <<>>

\* the same resolver on snapshots whose ids begin with such words
SpecPrefixed == InitPrefixed /\ [][Next]_vars

(***************************************************************************)
(* The import dialog (part_007) in front of the store (part_013)           *)
(***************************************************************************)
MaxImports == 2

\* part_010:237-251: the result of reading the dropped files
ImportResult(success, cv, warnings) ==
  [success |-> success, cv |-> cv, warnings |-> warnings]

\* part_009:156-165: a file that was read
Success(cv) == ImportResult(TRUE, cv, <<>>)

\* part_009:146-152: a file that was not; it carries no document
Failure == ImportResult(FALSE, NoEntity, <<>>)

\* a skill as the user left it after correcting the years computed from the
\* roles (skill-editor.tsx:35-49), and as a new export of the source has it
\* (extract.ts:183-188)
CorrectedSkillPool ==
  {Skill(<<"a">>, GoName, 3, 3, NullNum, NullNum),
   Skill(<<"b">>, goName, 2, 3, 4, 3)}

ExportedSkillPool ==
  {Skill(<<"a">>, GoName, 3, 5, UndefinedNum, UndefinedNum),
   Skill(<<"b">>, goName, 2, 3, UndefinedNum, UndefinedNum)}

\* pairs in which the source is imported again after the user's corrections
ReimportScenarios ==
  {<<BareDoc(<<>>, cs), BareDoc(<<>>, is)>> :
     cs \in Lists(CorrectedSkillPool, MaxSkills), is \in Lists(ExportedSkillPool, MaxSkills)}

DialogScenarios == Scenarios \cup ReimportScenarios

\* the documents a store can hold when the dialog is first opened
StoredDocuments == {s[1] : s \in DialogScenarios}

\* what the dropzone may hand to handleImport while the store holds a document
ImportResults(cv) ==
  {Failure}
    \cup (IF cv = NoEntity THEN {Success(d) : d \in StoredDocuments}
          ELSE {Success(s[2]) : s \in {t \in DialogScenarios : t[1] = cv}})

\* part_013:21-31
normalizeCv(cv) ==
  [cv EXCEPT
     !.photoDataUrl = IF @ = Null \/ @ = Undefined THEN Null ELSE @,
     !.contacts = IF @ = NoEntity THEN Contacts(Null) ELSE @]

\* a store that keeps the roles it held beside the imported ones
IMPORT_CVKeepingRoles(state, cv) ==
  IF state = NoEntity THEN normalizeCv(cv)
  ELSE [normalizeCv(cv) EXCEPT !.roles = @ \o state.roles]

\* part_013:121-131: the document of the state after IMPORT_CV
IMPORT_CV(state, cv) == normalizeCv(cv)

\* cv-view.tsx:268-273: the document of the store after onImportComplete
handleImportComplete(state, result) ==
  IF result.success /\ result.cv # NoEntity THEN IMPORT_CV(state, result.cv) ELSE state

\* part_007:29-32 with isOpen of cv-view.tsx:258; conflictAnalysis is the
\* variable analysis
ClosedDialog ==
  [isOpen |-> FALSE, importResult |-> NoEntity,
   showConfirmReplace |-> FALSE, showConflictResolver |-> FALSE]

\* part_007:34, 108, 131 and 176: what the dialog renders
Rendered(d, conflictAnalysis, currentCv) ==
  IF ~d.isOpen THEN "closed"
  ELSE IF /\ d.showConflictResolver /\ conflictAnalysis # NoEntity
          /\ currentCv # NoEntity /\ d.importResult # NoEntity
          /\ d.importResult.cv # NoEntity
       THEN "resolving"
  ELSE IF d.showConfirmReplace /\ d.importResult # NoEntity /\ d.importResult.success
       THEN "confirm"
  ELSE "dropzone"

\* a dialog that asks the user nothing
NeedsDecisionNever(result, currentCv) == FALSE

\* part_007:39: result.success && hasExistingData && currentCv && result.cv
NeedsDecision(result, currentCv) ==
  result.success /\ currentCv # NoEntity /\ result.cv # NoEntity

InitDialog ==
  /\ current \in {NoEntity} \cup StoredDocuments
  /\ incoming = NoEntity
  /\ phase = "closed"
  /\ analysis = NoEntity
  /\ resolutions = NoResolutions
  /\ merged = NoEntity
  /\ heap = << >>
  /\ dialog = ClosedDialog
  /\ completed = <<>>
  /\ pending = <<>>

\* cv-view.tsx: the import button sets showImportDialog
Open ==
  /\ phase = "closed"
  /\ Len(completed) < MaxImports
  /\ dialog' = [dialog EXCEPT !.isOpen = TRUE]
  /\ phase' = Rendered(dialog', analysis, current)
  /\ UNCHANGED <<current, incoming, analysis, resolutions, merged, heap,
                 completed, pending>>

\* part_007:79-85 followed by the parent's onClose
Closes ==
  /\ dialog' = ClosedDialog
  /\ analysis' = NoEntity
  /\ incoming' = NoEntity
  /\ resolutions' = NoResolutions
  /\ heap' = << >>
  /\ phase' = "closed"

\* part_007:51-54: onImportComplete(result); handleClose()
Completes(result) ==
  /\ completed' = Append(completed, result)
  /\ current' = handleImportComplete(current, result)
  /\ Closes

\* part_007:41-50: the analysis decides what is shown next
ShowsDecision(result, detected) ==
  /\ dialog' = [dialog EXCEPT !.importResult = result,
                              !.showConflictResolver = @ \/ detected.hasConflicts,
                              !.showConfirmReplace = @ \/ ~detected.hasConflicts]
  /\ analysis' = IF detected.hasConflicts THEN detected ELSE analysis
  /\ incoming' = result.cv
  /\ resolutions' = NoResolutions
  /\ heap' = DetectWrites(heap, detected)
  /\ phase' = Rendered(dialog', analysis', current)
  /\ UNCHANGED <<current, completed>>

\* part_007:36-57
HandleImport ==
  /\ phase = "dropzone"
  /\ \E result \in ImportResults(current), clock \in Clocks :
       IF NeedsDecision(result, current)
       THEN ShowsDecision(result, detectConflicts(current, result.cv, clock))
       ELSE IF result.success
       THEN Completes(result)
       ELSE /\ dialog' = [dialog EXCEPT !.importResult = result]
            /\ incoming' = result.cv
            /\ UNCHANGED <<current, phase, analysis, resolutions, heap, completed>>
  /\ UNCHANGED <<merged, pending>>

\* part_007:62-66: the result handed on after the conflicts are resolved
mergedResult(importResult, mergedCv) ==
  [importResult EXCEPT
     !.cv = mergedCv,
     !.warnings = Append(@, "Conflicts resolved and merged")]

\* conflict-resolver.tsx:112-116 calling part_007:59-70
HandleConflictResolved ==
  /\ phase = "resolving"
  /\ \E clock \in Clocks :
       merged' = mergeWithResolutions(current, incoming, analysis, resolutions, clock)
  /\ IF dialog.importResult # NoEntity
     THEN Completes(mergedResult(dialog.importResult, merged'))
     ELSE /\ heap' = MergeWrites(heap, current, merged')
          /\ UNCHANGED <<current, incoming, phase, analysis, resolutions,
                         dialog, completed>>
  /\ UNCHANGED pending

\* part_007:72-77
HandleConfirmReplace ==
  /\ phase = "confirm"
  /\ IF dialog.importResult # NoEntity
     THEN Completes(dialog.importResult)
     ELSE UNCHANGED <<current, incoming, phase, analysis, resolutions, heap,
                      dialog, completed>>
  /\ UNCHANGED <<merged, pending>>

\* part_007:79-85 from the cancel buttons (part_007:112, 165 and 181)
HandleClose ==
  /\ phase \in {"dropzone", "confirm", "resolving"}
  /\ Closes
  /\ UNCHANGED <<current, merged, completed, pending>>

NextDialog ==
  \/ Open
  \/ HandleImport
  \/ SetResolution
  \/ AcceptAll
  \/ KeepAll
  \/ HandleConflictResolved
  \/ HandleConfirmReplace
  \/ HandleClose

SpecDialog == InitDialog /\ [][NextDialog]_vars

(***************************************************************************)
(* Callers of the engine that commit their merges to one store             *)
(***************************************************************************)
MaxCallers == 2

Callers == 1..MaxCallers

StoreScenarios == MixedScenarios \cup ClockScenarios \cup ReimportScenarios

\* index.ts:260-300: the resolutions a caller passes without asking
BulkResolutions(conflictAnalysis) ==
  {acceptAllIncoming(conflictAnalysis), keepAllCurrent(conflictAnalysis)}

\* index.ts:57-121 called on the analysis of detect.ts:191: a merge a caller
\* holds, with the snapshot of the store it was computed from
PendingMerge(base, imported, conflictAnalysis, given, clock) ==
  [base |-> base, incoming |-> imported, committed |-> FALSE,
   merged |-> mergeWithResolutions(base, imported, conflictAnalysis, given, clock)]

PendingMerges(base, imported, conflictAnalysis, clock) ==
  {PendingMerge(base, imported, conflictAnalysis, given, clock) :
     given \in BulkResolutions(conflictAnalysis)}

InitStore ==
  /\ current \in {s[1] : s \in StoreScenarios}
  /\ incoming = NoEntity
  /\ phase = "closed"
  /\ analysis = NoEntity
  /\ resolutions = NoResolutions
  /\ merged = NoEntity
  /\ heap = << >>
  /\ dialog = NoEntity
  /\ completed = <<>>
  /\ pending = [c \in Callers |-> NoEntity]

\* a caller reads the document of the store and merges a snapshot into it
Compute(c) ==
  /\ pending[c] = NoEntity
  /\ \E s \in {t \in StoreScenarios : t[1] = current}, clock \in Clocks :
       \E p \in PendingMerges(current, s[2],
                              detectConflicts(current, s[2], clock), clock) :
         pending' = [pending EXCEPT ![c] = p]
  /\ UNCHANGED <<current, incoming, phase, analysis, resolutions, merged, heap,
                 dialog, completed>>

\* part_013:834-840 and 121-131: importCv dispatches IMPORT_CV with the merge
Commit(c) ==
  /\ pending[c] # NoEntity
  /\ ~pending[c].committed
  /\ current' = IMPORT_CV(current, pending[c].merged)
  /\ completed' = Append(completed, Success(pending[c].merged))
  /\ pending' = [pending EXCEPT ![c].committed = TRUE]
  /\ UNCHANGED <<incoming, phase, analysis, resolutions, merged, heap, dialog>>

NextStore == \E c \in Callers : Compute(c) \/ Commit(c)

SpecStore == InitStore /\ [][NextStore]_vars

(***************************************************************************)
(* Properties                                                              *)
(***************************************************************************)
Detected == phase # "imported"

Applied == phase = "applied"

RoleConflicts == analysis.conflicts.roles

SkillConflicts == analysis.conflicts.skills

Count(x, seq) == Cardinality({i \in DOMAIN seq : seq[i] = x})

CountType(conflicts, type) ==
  Cardinality({i \in DOMAIN conflicts : conflicts[i].type = type})

\* the two lists hold the same elements the same number of times
SameBag(a, b) ==
  /\ Len(a) = Len(b)
  /\ \A x \in Range(a) \cup Range(b) : Count(x, a) = Count(x, b)

\* C1: detecting a snapshot against itself reports no conflict at all.
C1_Idempotence ==
  (Detected /\ current = incoming)
    => (~analysis.hasConflicts /\ analysis.totalConflicts = 0)

ResOf(map, id) == IF id \in DOMAIN map THEN map[id] ELSE "unset"

MapSeq(seq, Op(_)) == [i \in DOMAIN seq |-> Op(seq[i])]

\* what a role says, whatever its id
RoleContent(r) == [r EXCEPT !.id = <<>>]

\* what the detector compares of a skill
SkillContent(k) == [name |-> toLowerCase(k.name), level |-> k.level, years |-> k.years]

\* no incoming role without a same-id current role comes near a current role,
\* and no two incoming skills share a name
BOnlyUnambiguous ==
  /\ \A r \in Range(incoming.roles) :
       (\A c \in Range(current.roles) : c.id # r.id)
         => \A c \in Range(current.roles), clock \in Clocks :
              RatLess(calculateRoleMatchScore(c, r, clock), Threshold)
  /\ \A i, j \in DOMAIN incoming.skills :
       i # j => toLowerCase(incoming.skills[i].name) # toLowerCase(incoming.skills[j].name)

\* C3: merging with acceptAllIncoming gives the content of the incoming
\* snapshot: its title and summary, and each of its roles and skills exactly
\* once and nothing else, when every incoming-only entity is unambiguous.
C3_AcceptAllRoundTrip ==
  (Applied /\ resolutions = acceptAllIncoming(analysis) /\ BOnlyUnambiguous)
    => /\ ~textsAreDifferent(merged.title, incoming.title)
       /\ ~textsAreDifferent(merged.summary, incoming.summary)
       /\ SameBag(MapSeq(merged.roles, RoleContent), MapSeq(incoming.roles, RoleContent))
       /\ SameBag(MapSeq(merged.skills, SkillContent),
                  MapSeq(incoming.skills, SkillContent))

\* C4: a modified skill conflict resolved with accept puts into the merged
\* skills the incoming skill's id, name, level and years with the current
\* skill's overriddenYears and calculatedYears.
C4_AcceptKeepsOverrides ==
  Applied =>
    \A i \in DOMAIN SkillConflicts :
      LET c == SkillConflicts[i] IN
        (c.type = "modified" /\ ResOf(resolutions.skills, c.id) = "accept")
          => \E j \in DOMAIN merged.skills :
               LET m == merged.skills[j] IN
                 /\ m.id = c.incoming.id
                 /\ m.name = c.incoming.name
                 /\ m.level = c.incoming.level
                 /\ m.years = c.incoming.years
                 /\ m.overriddenYears = c.current.overriddenYears
                 /\ m.calculatedYears = c.current.calculatedYears

C4_Witness ==
  /\ Applied
  /\ \E i \in DOMAIN SkillConflicts :
       LET c == SkillConflicts[i] IN
         /\ c.type = "modified"
         /\ ResOf(resolutions.skills, c.id) = "accept"
         /\ c.current.years = 3 /\ c.current.overriddenYears = NullNum
         /\ c.incoming.years = 5 /\ c.incoming.overriddenYears # NullNum
         /\ \E j \in DOMAIN merged.skills :
              merged.skills[j].years = 5 /\ merged.skills[j].overriddenYears = NullNum

\* the resolution table: what a conflict contributes to the merged list
TablePick(c, resolution) ==
  CASE c.type = "modified" -> IF resolution = "accept" THEN <<c.incoming>> ELSE <<c.current>>
    [] c.type = "added" -> IF resolution = "accept" THEN <<c.incoming>> ELSE <<>>
    [] c.type = "removed" -> IF resolution = "accept" THEN <<>> ELSE <<c.current>>

\* how often the table and the carried-forward current roles put x in the result
ExpectedRoleCount(x) ==
  Cardinality({i \in DOMAIN RoleConflicts :
                 x \in Range(TablePick(RoleConflicts[i],
                                       ResOf(resolutions.roles, RoleConflicts[i].id)))})
    + Cardinality({k \in DOMAIN current.roles :
                     /\ current.roles[k] = x
                     /\ \A i \in DOMAIN RoleConflicts : RoleConflicts[i].current # x})

\* the incoming roles no current role comes near, at any instant
FarIncomingRoles ==
  {r \in Range(incoming.roles) :
     \A c \in Range(current.roles), clock \in Clocks :
       RatLess(calculateRoleMatchScore(c, r, clock), Threshold)}

ConflictIds(conflicts) == {conflicts[i].id : i \in DOMAIN conflicts}

\* the resolutions with keep written out for every conflict that has none
Completed(res) ==
  [title |-> IF res.title = "undefined" THEN "keep" ELSE res.title,
   summary |-> IF res.summary = "undefined" THEN "keep" ELSE res.summary,
   roles |-> [id \in ConflictIds(RoleConflicts) \cup DOMAIN res.roles |->
                IF id \in DOMAIN res.roles THEN res.roles[id] ELSE "keep"],
   skills |-> [id \in ConflictIds(SkillConflicts) \cup DOMAIN res.skills |->
                 IF id \in DOMAIN res.skills THEN res.skills[id] ELSE "keep"]]

SameContent(a, b) ==
  /\ a.title = b.title
  /\ a.summary = b.summary
  /\ a.roles = b.roles
  /\ a.skills = b.skills

\* C6: with any resolutions map, however partial, the merge returns a whole
\* document, the same as with keep written out for every absent conflict id;
\* the empty map gives what keepAllCurrent gives.
C6_AbsentMeansKeep ==
  Applied =>
    /\ merged # NoEntity
    /\ DOMAIN merged = DOMAIN current
    /\ \A clock \in Clocks :
         SameContent(merged, mergeWithResolutions(current, incoming, analysis,
                                                  Completed(resolutions), clock))
    /\ resolutions = NoResolutions =>
         \A clock \in Clocks :
           SameContent(merged, mergeWithResolutions(current, incoming, analysis,
                                                    keepAllCurrent(analysis), clock))

C6_Witness ==
  /\ Applied
  /\ \E i, j, k \in DOMAIN RoleConflicts :
       /\ RoleConflicts[i].type = "added"
       /\ RoleConflicts[i].id \notin DOMAIN resolutions.roles
       /\ RoleConflicts[i].incoming \notin Range(merged.roles)
       /\ RoleConflicts[j].type = "modified"
       /\ RoleConflicts[j].id \notin DOMAIN resolutions.roles
       /\ RoleConflicts[j].current \in Range(merged.roles)
       /\ RoleConflicts[k].id \in DOMAIN resolutions.roles
       /\ resolutions.roles[RoleConflicts[k].id] = "accept"

\* C7: when a snapshot is structurally invalid the operation fails as a
\* whole: neither an analysis nor a merged document is ever returned.
C7_InvalidInputFails ==
  (Invalid(current) \/ Invalid(incoming)) => (analysis = NoEntity /\ merged = NoEntity)

WellFormedEntityConflict(c) ==
  /\ c.type \in {"modified", "added", "removed"}
  /\ c.type = "modified" => c.current # NoEntity /\ c.incoming # NoEntity
  /\ c.type = "added" => c.current = NoEntity /\ c.incoming # NoEntity
  /\ c.type = "removed" => c.current # NoEntity /\ c.incoming = NoEntity

WellFormedTextConflict(c) ==
  c # NoEntity => c.type = "modified" /\ c.current # NoEntity /\ c.incoming # NoEntity

\* C9: every conflict of an analysis is well-formed for its type, text
\* conflicts are modified, and a match score is carried by the modified role
\* conflicts only and lies between 0.5 and 1.
C9_ConflictsWellFormed ==
  Detected =>
    /\ WellFormedTextConflict(analysis.conflicts.title)
    /\ WellFormedTextConflict(analysis.conflicts.summary)
    /\ \A i \in DOMAIN RoleConflicts :
         LET c == RoleConflicts[i] IN
           /\ WellFormedEntityConflict(c)
           /\ ("matchScore" \in DOMAIN c) <=> c.type = "modified"
           /\ c.type = "modified" =>
                RatLeq(Threshold, c.matchScore) /\ RatLeq(c.matchScore, <<1, 1>>)
    /\ \A i \in DOMAIN SkillConflicts :
         /\ WellFormedEntityConflict(SkillConflicts[i])
         /\ "matchScore" \notin DOMAIN SkillConflicts[i]

C9_Witness ==
  /\ Detected
  /\ \E i, k \in DOMAIN RoleConflicts :
       /\ RoleConflicts[i].type = "modified"
       /\ RatEq(RoleConflicts[i].matchScore, Threshold)
       /\ RoleConflicts[k].type = "added"

\* C10: totalConflicts is the number of conflicts of the analysis,
\* hasConflicts says that there is one, and each stats counter is the number
\* of conflicts of its kind and type.
C10_TotalsAndStats ==
  Detected =>
    /\ analysis.totalConflicts =
         (IF analysis.conflicts.title # NoEntity THEN 1 ELSE 0)
           + (IF analysis.conflicts.summary # NoEntity THEN 1 ELSE 0)
           + Len(RoleConflicts) + Len(SkillConflicts)
    /\ analysis.hasConflicts <=> analysis.totalConflicts > 0
    /\ analysis.stats.rolesModified = CountType(RoleConflicts, "modified")
    /\ analysis.stats.rolesAdded = CountType(RoleConflicts, "added")
    /\ analysis.stats.rolesRemoved = CountType(RoleConflicts, "removed")
    /\ analysis.stats.skillsModified = CountType(SkillConflicts, "modified")
    /\ analysis.stats.skillsAdded = CountType(SkillConflicts, "added")
    /\ analysis.stats.skillsRemoved = CountType(SkillConflicts, "removed")

C10_Witness ==
  /\ Detected
  /\ analysis.conflicts.title # NoEntity
  /\ analysis.conflicts.summary # NoEntity
  /\ analysis.stats.rolesModified > 0
  /\ analysis.stats.skillsModified + analysis.stats.skillsRemoved > 0
  /\ analysis.totalConflicts >= 4

\* a locale value trimmed, null and undefined taken as the empty string
Trimmed(v) == trim(IF v = Null \/ v = Undefined THEN <<>> ELSE v)

\* the trimmed sv values differ or the trimmed en values differ
LocalesDiffer(a, b) == Trimmed(a.sv) # Trimmed(b.sv) \/ Trimmed(a.en) # Trimmed(b.en)

\* the text conflict of a field is there exactly when the locales differ,
\* and is then the modified conflict of that field between the two values
TextConflictRight(conflict, field, cur, inc) ==
  /\ (conflict # NoEntity) <=> LocalesDiffer(cur, inc)
  /\ conflict # NoEntity =>
       /\ conflict.id = <<field>>
       /\ conflict.type = "modified"
       /\ conflict.current = cur
       /\ conflict.incoming = inc

\* C11: for the title and for the summary, the analysis has one modified text
\* conflict, with the field name as id, exactly when the trimmed sv values or
\* the trimmed en values differ, null counting as empty; two empty or missing
\* values never conflict.
C11_TextConflictIffLocalesDiffer ==
  Detected =>
    /\ TextConflictRight(analysis.conflicts.title, "title",
                         current.title, incoming.title)
    /\ TextConflictRight(analysis.conflicts.summary, "summary",
                         current.summary, incoming.summary)

C11_Witness ==
  /\ Detected
  /\ current.title = Text(Utvecklare, Null)
  /\ incoming.title = Text(Utvecklare, Developer)
  /\ analysis.conflicts.title # NoEntity
  /\ current.summary = NoText
  /\ incoming.summary = NoText
  /\ analysis.conflicts.summary = NoEntity

\* C12: a current role and an incoming role of the same id score 1, and the
\* detector matches that current role to that incoming role and to no other:
\* the best match is that role, a modified conflict of the current role has it
\* as its incoming side, and neither role is reported as removed or added.
C12_SameIdAlwaysMatched ==
  Detected =>
    \A i \in DOMAIN current.roles, j \in DOMAIN incoming.roles :
      LET cur == current.roles[i]
          inc == incoming.roles[j]
      IN  cur.id = inc.id =>
            /\ \A clock \in Clocks :
                 /\ RatEq(calculateRoleMatchScore(cur, inc, clock), <<1, 1>>)
                 /\ findBestRoleMatch(cur, incoming.roles, clock).found
                 /\ findBestRoleMatch(cur, incoming.roles, clock).role = inc
            /\ \A k \in DOMAIN RoleConflicts :
                 LET c == RoleConflicts[k] IN
                   /\ (c.type = "modified" /\ c.current = cur) => c.incoming = inc
                   /\ ~(c.type = "removed" /\ c.current = cur)
                   /\ ~(c.type = "added" /\ c.incoming = inc)

\* the skill a conflict is about: its current side, or its incoming side
\* when it has no current side
ConflictSkill(c) == IF c.current # NoEntity THEN c.current ELSE c.incoming

\* the skills of a list that bear a name, whatever the case
Named(skills, n) == {k \in Range(skills) : toLowerCase(k.name) = n}

\* the skill conflicts about a name
ConflictsNamed(n) ==
  {i \in DOMAIN SkillConflicts : toLowerCase(ConflictSkill(SkillConflicts[i]).name) = n}

SameLevelAndYears(a, b) == a.level = b.level /\ a.years = b.years

\* C13: for a skill name that both snapshots have, whatever the case, the
\* analysis has no added and no removed conflict and at most one conflict at
\* all; none when level and years are the same, exactly one modified conflict
\* when level or years differ.
C13_OneMatchPerSkillName ==
  Detected =>
    \A n \in {toLowerCase(k.name) : k \in Range(current.skills)}
               \cap {toLowerCase(k.name) : k \in Range(incoming.skills)} :
      /\ \A i \in ConflictsNamed(n) : SkillConflicts[i].type = "modified"
      /\ Cardinality(ConflictsNamed(n)) <= 1
      /\ (\A a \in Named(current.skills, n), b \in Named(incoming.skills, n) :
            SameLevelAndYears(a, b)) => ConflictsNamed(n) = {}
      /\ (\A a \in Named(current.skills, n), b \in Named(incoming.skills, n) :
            ~SameLevelAndYears(a, b)) => Cardinality(ConflictsNamed(n)) = 1

\* a resolutions map with the one choice for every conflict of an analysis and
\* no entry for anything else ("undefined" stands for a key that is absent)
FullMap(res, an, choice) ==
  /\ DOMAIN res = {"title", "summary", "roles", "skills"}
  /\ res.title = (IF an.conflicts.title # NoEntity THEN choice ELSE "undefined")
  /\ res.summary = (IF an.conflicts.summary # NoEntity THEN choice ELSE "undefined")
  /\ DOMAIN res.roles = ConflictIds(an.conflicts.roles)
  /\ \A id \in DOMAIN res.roles : res.roles[id] = choice
  /\ DOMAIN res.skills = ConflictIds(an.conflicts.skills)
  /\ \A id \in DOMAIN res.skills : res.skills[id] = choice

\* C14: what Accept All (Keep All) leaves as resolutions is a full map of the
\* analysis: a title entry and a summary entry exactly when there is such a
\* conflict, one entry per role conflict id and per skill conflict id, every
\* entry accept (keep), and no other key.
C14_BulkResolutionsAreFull ==
  [][/\ AcceptAll => FullMap(resolutions', analysis, "accept")
     /\ KeepAll => FullMap(resolutions', analysis, "keep")]_vars

C14_Witness ==
  /\ phase = "resolving"
  /\ FullMap(resolutions, analysis, "accept")
  /\ analysis.conflicts.title # NoEntity
  /\ analysis.conflicts.summary = NoEntity
  /\ Len(RoleConflicts) > 0
  /\ Len(SkillConflicts) > 0

\* a string that is there and not empty
PopulatedString(v) == v # Null /\ v # Undefined /\ v # <<>>

\* contacts with at least one of the four entries populated
PopulatedContacts(c) ==
  /\ c # NoEntity
  /\ \E field \in {"email", "phone", "address", "website"} : PopulatedString(c[field])

\* C15: in the merged document the contacts and the photo are those of the
\* current snapshot whenever it has them, whatever the resolutions; they are
\* the incoming ones only when the current snapshot has none and the incoming
\* snapshot has them.
C15_FillIfEmpty ==
  Applied =>
    /\ PopulatedContacts(current.contacts) => merged.contacts = current.contacts
    /\ merged.contacts # current.contacts =>
         /\ ~PopulatedContacts(current.contacts)
         /\ PopulatedContacts(incoming.contacts)
         /\ merged.contacts = incoming.contacts
    /\ PopulatedString(current.photoDataUrl) => merged.photoDataUrl = current.photoDataUrl
    /\ merged.photoDataUrl # current.photoDataUrl =>
         /\ ~PopulatedString(current.photoDataUrl)
         /\ PopulatedString(incoming.photoDataUrl)
         /\ merged.photoDataUrl = incoming.photoDataUrl

C15_Witness ==
  /\ Applied
  /\ analysis.conflicts.title # NoEntity
  /\ resolutions = acceptAllIncoming(analysis)
  /\ merged.title = incoming.title
  /\ PopulatedContacts(current.contacts)
  /\ PopulatedContacts(incoming.contacts)
  /\ incoming.contacts # current.contacts
  /\ merged.contacts = current.contacts
  /\ PopulatedString(incoming.photoDataUrl)
  /\ incoming.photoDataUrl # current.photoDataUrl
  /\ merged.photoDataUrl = current.photoDataUrl

HasStart(role) == role.start # NullDate /\ role.start # ""

\* C16: the merged roles are in descending order of start date, and every
\* role with a start date comes before every role without one.
C16_RolesSortedByStart ==
  Applied =>
    \A i, j \in DOMAIN merged.roles :
      /\ (i < j /\ HasStart(merged.roles[i]) /\ HasStart(merged.roles[j]))
           => ParseDate(merged.roles[i].start) >= ParseDate(merged.roles[j].start)
      /\ (HasStart(merged.roles[i]) /\ ~HasStart(merged.roles[j])) => i < j

\* the current entities that are the current side of no conflict of a list
Unconflicted(entities, conflicts) ==
  {x \in Range(entities) : \A i \in DOMAIN conflicts : conflicts[i].current # x}

\* C17: whatever the resolutions, each current role and each current skill
\* that is in no conflict is in the merged document exactly once, with every
\* field as it was.
C17_UnconflictedCarriedForward ==
  Applied =>
    /\ \A x \in Unconflicted(current.roles, RoleConflicts) : Count(x, merged.roles) = 1
    /\ \A x \in Unconflicted(current.skills, SkillConflicts) : Count(x, merged.skills) = 1

\* C18: the analysis of a pair of snapshots is the same at whatever instant
\* the detection is run.
C18_DetectionIndependentOfClock ==
  Detected => \A clock \in Clocks : detectConflicts(current, incoming, clock) = analysis

\* what findBestRoleMatch has to return for a role among candidates: the
\* earliest candidate of maximal score when that score is at least 0.5, and
\* no match otherwise
BestMatchRight(match, role, candidates, clock) ==
  LET Score(j) == calculateRoleMatchScore(role, candidates[j], clock) IN
    IF \E j \in DOMAIN candidates : RatLeq(<<1, 2>>, Score(j))
    THEN /\ match.found
         /\ \E j \in DOMAIN candidates :
              /\ match.role = candidates[j]
              /\ match.score = Score(j)
              /\ \A k \in DOMAIN candidates : RatLeq(Score(k), Score(j))
              /\ \A k \in 1..(j - 1) : RatLess(Score(k), Score(j))
    ELSE ~match.found

\* the state the detection leaves, before any resolution is recorded; the
\* snapshots never change afterwards
JustDetected == phase = "resolving" /\ resolutions = NoResolutions

\* C19: for every current role, findBestRoleMatch over the incoming roles
\* returns the earliest candidate of maximal score when that score is at
\* least 0.5, and no match when no candidate reaches 0.5 or there is none.
C19_BestMatchIsEarliestMaximum ==
  JustDetected =>
    \A i \in DOMAIN current.roles, clock \in Clocks :
      BestMatchRight(findBestRoleMatch(current.roles[i], incoming.roles, clock),
                     current.roles[i], incoming.roles, clock)

C19_Witness ==
  /\ Detected
  /\ Len(incoming.roles) = 2
  /\ \E i \in DOMAIN current.roles, clock \in Clocks :
       LET role == current.roles[i] IN
         /\ RatEq(calculateRoleMatchScore(role, incoming.roles[1], clock), <<1, 1>>)
         /\ RatEq(calculateRoleMatchScore(role, incoming.roles[2], clock), <<1, 1>>)
         /\ findBestRoleMatch(role, incoming.roles, clock).role = incoming.roles[1]
         /\ \E k \in DOMAIN RoleConflicts :
              /\ RoleConflicts[k].type = "modified"
              /\ RoleConflicts[k].current = role
              /\ RoleConflicts[k].incoming = incoming.roles[1]

\* the number of role conflicts of a type with an entity on a side
RoleConflictCount(type, side, entity) ==
  Cardinality({k \in DOMAIN RoleConflicts :
                 RoleConflicts[k].type = type /\ RoleConflicts[k][side] = entity})

\* the incoming roles that some current role is matched to at an instant
MatchedIncoming(clock) ==
  {r \in Range(incoming.roles) :
     \E c \in Range(current.roles) :
       LET match == findBestRoleMatch(c, incoming.roles, clock) IN
         match.found /\ match.role = r}

\* the role conflicts partition the roles, for a detection run at an instant
RolePartition(clock) ==
  /\ \A c \in Range(current.roles) :
       /\ RoleConflictCount("modified", "current", c)
            + RoleConflictCount("removed", "current", c) <= 1
       /\ RoleConflictCount("added", "current", c) = 0
       /\ RoleConflictCount("removed", "current", c) = 1
            <=> \A r \in Range(incoming.roles) :
                  RatLess(calculateRoleMatchScore(c, r, clock), <<1, 2>>)
       /\ RoleConflictCount("modified", "current", c) = 1
            => \E k \in DOMAIN RoleConflicts :
                 /\ RoleConflicts[k].type = "modified"
                 /\ RoleConflicts[k].current = c
                 /\ RoleConflicts[k].incoming \in MatchedIncoming(clock)
  /\ \A r \in Range(incoming.roles) :
       /\ RoleConflictCount("removed", "incoming", r) = 0
       /\ RoleConflictCount("added", "incoming", r)
            = (IF r \in MatchedIncoming(clock) THEN 0 ELSE 1)

SkillConflictCount(type, side, entity) ==
  Cardinality({k \in DOMAIN SkillConflicts :
                 SkillConflicts[k].type = type /\ SkillConflicts[k][side] = entity})

\* the incoming skills that are the partner found for some current skill
SkillPartners ==
  {matchSkillByName(incoming.skills, c.name) : c \in Range(current.skills)} \ {NoEntity}

\* C21: every current skill whose name no incoming skill bears, whatever the
\* case, is the current side of exactly one removed conflict, and every
\* incoming skill that is the partner of no current skill is the incoming
\* side of exactly one added conflict.
C21_SkillClassificationCovers ==
  JustDetected =>
    /\ \A c \in Range(current.skills) :
         Named(incoming.skills, toLowerCase(c.name)) = {}
           => SkillConflictCount("removed", "current", c) = 1
    /\ \A r \in Range(incoming.skills) :
         r \notin SkillPartners => SkillConflictCount("added", "incoming", r) = 1

\* every current role whose best match over all the incoming roles differs
\* from it is the current side of a modified conflict with that match,
\* whatever the other current roles are matched to
MatchedAgainstAll(clock) ==
  \A c \in Range(current.roles) :
    LET match == findBestRoleMatch(c, incoming.roles, clock) IN
      match.found /\ rolesAreDifferent(c, match.role)
        => \E k \in DOMAIN RoleConflicts :
             /\ RoleConflicts[k].type = "modified"
             /\ RoleConflicts[k].current = c
             /\ RoleConflicts[k].incoming = match.role

\* C22: role matching is not exclusive: each current role is matched against
\* all the incoming roles, also those another current role is matched to, so
\* one incoming role can be the incoming side of several modified conflicts.
C22_MatchingNonExclusive ==
  JustDetected =>
    \E clock \in Clocks :
      analysis = detectConflicts(current, incoming, clock) /\ MatchedAgainstAll(clock)

C22_Witness ==
  /\ Detected
  /\ \E r \in Range(incoming.roles) :
       /\ RoleConflictCount("modified", "incoming", r) >= 2
       /\ \E c1, c2 \in Range(current.roles) :
            /\ c1.id # c2.id
            /\ \A clock \in Clocks :
                 /\ findBestRoleMatch(c1, incoming.roles, clock).role = r
                 /\ findBestRoleMatch(c2, incoming.roles, clock).role = r

Indicator(b) == IF b THEN 1 ELSE 0

\* the score of two roles is
\* (3*overlap + 2*titleSimilarity + 2*companySimilarity
\*    + 0.5*[starts equal] + 0.5*[ends equal or both current]) / 8,
\* compared by cross-multiplication with the similarities as fractions
ScoreFormulaRight(score, c, r, clock) ==
  LET t == stringSimilarity(c.title, r.title)
      co == stringSimilarity(c.company, r.company)
      ov == Indicator(dateRangesOverlap(c.start, c.end, r.start, r.end, clock))
      se == Indicator(c.start = r.start)
      ee == Indicator(c.end = r.end \/ (c.isCurrent /\ r.isCurrent))
  IN  score[1] * (16 * t[2] * co[2])
        = score[2] * (6 * ov * t[2] * co[2] + 4 * t[1] * co[2] + 4 * co[1] * t[2]
                        + (se + ee) * t[2] * co[2])

\* two roles of different ids, the same title and company, and dates one
\* month apart
ShiftedByOneMonth(c, r) ==
  /\ c.id # r.id
  /\ c.title = r.title
  /\ c.company = r.company
  /\ \/ c.start = "2020-01" /\ c.end = "2021-01" /\ r.start = "2020-02" /\ r.end = "2021-02"
     \/ r.start = "2020-01" /\ r.end = "2021-01" /\ c.start = "2020-02" /\ c.end = "2021-02"

\* C23: the score of two roles of different ids is the weighted sum over 8 of
\* the overlap (3), the title similarity (2), the company similarity (2) and
\* the two halves of the exact-date bonus; two roles of the same title and
\* company with dates one month apart score 7/8 and, alone in their
\* snapshots, are one modified conflict and neither removed nor added.
C23_ScoreFormula ==
  JustDetected =>
    /\ \A c \in Range(current.roles), r \in Range(incoming.roles), clock \in Clocks :
         c.id # r.id
           => /\ ScoreFormulaRight(calculateRoleMatchScore(c, r, clock), c, r, clock)
              /\ ShiftedByOneMonth(c, r)
                   => calculateRoleMatchScore(c, r, clock)[1] * 8
                        = calculateRoleMatchScore(c, r, clock)[2] * 7
    /\ (/\ Len(current.roles) = 1 /\ Len(incoming.roles) = 1
        /\ ShiftedByOneMonth(current.roles[1], incoming.roles[1]))
         => /\ Len(RoleConflicts) = 1
            /\ RoleConflicts[1].type = "modified"
            /\ RoleConflicts[1].current = current.roles[1]
            /\ RoleConflicts[1].incoming = incoming.roles[1]
            /\ RoleConflicts[1].matchScore[1] * 8 = RoleConflicts[1].matchScore[2] * 7

C23_Witness ==
  /\ Detected
  /\ Len(current.roles) = 1 /\ Len(incoming.roles) = 1
  /\ ShiftedByOneMonth(current.roles[1], incoming.roles[1])
  /\ CountType(RoleConflicts, "modified") = 1
  /\ CountType(RoleConflicts, "removed") = 0
  /\ CountType(RoleConflicts, "added") = 0

\* part_003:72-74
hasOverride(skill) ==
  skill.overriddenYears # UndefinedNum /\ skill.overriddenYears # NullNum

\* the corrections of the years in a document that a result handed to
\* onImportComplete still carries: every skill of the document with
\* overridden years, bearing a name of the imported snapshot, has a skill of
\* that name with the same overridden years in the result
CarriesOverrides(result, document, imported) ==
  \A i \in DOMAIN document.skills :
    LET skill == document.skills[i] IN
      hasOverride(skill) /\ Named(imported.skills, toLowerCase(skill.name)) # {}
        => /\ result.cv # NoEntity
           /\ \E j \in DOMAIN result.cv.skills :
                /\ toLowerCase(result.cv.skills[j].name) = toLowerCase(skill.name)
                /\ result.cv.skills[j].overriddenYears = skill.overriddenYears

\* C25: whenever the dialog hands a result to onImportComplete while a
\* document exists, every skill of that document with overridden years whose
\* name the imported snapshot bears keeps those overridden years in the
\* result, whether conflicts were resolved or none was detected.
C25_OverridesSurviveImport ==
  [][Len(completed') > Len(completed) /\ current # NoEntity
       => CarriesOverrides(completed'[Len(completed')], current, incoming)]_vars

\* C24: nothing guards the store against a merge computed from a snapshot
\* it no longer holds: after any commits the store holds exactly the merge
\* committed last, so of two merges of one snapshot the second replaces the
\* first and what the first accepted is lost.
C24_LastCommitWins ==
  completed # <<>> => current = normalizeCv(completed[Len(completed)].cv)

C24_Witness ==
  \E c1, c2 \in Callers :
    /\ c1 # c2
    /\ pending[c1] # NoEntity /\ pending[c2] # NoEntity
    /\ pending[c1].base = pending[c2].base
    /\ pending[c1].incoming # pending[c2].incoming
    /\ completed = <<Success(pending[c1].merged), Success(pending[c2].merged)>>
    /\ \E i \in DOMAIN pending[c1].merged.roles :
         /\ pending[c1].merged.roles[i] \notin Range(pending[c1].base.roles)
         /\ pending[c1].merged.roles[i] \notin Range(current.roles)

\* C26: with role ids unique within each snapshot, no role id occurs twice
\* in the roles of the merged document, whatever the resolutions are.
C26_MergedRoleIdsDistinct ==
  Applied =>
    \A i, j \in DOMAIN merged.roles : i # j => merged.roles[i].id # merged.roles[j].id

\* the roles on a side of the role conflicts of a type in an analysis
RolesReported(conflictAnalysis, type, side) ==
  {conflictAnalysis.conflicts.roles[k][side] :
     k \in {i \in DOMAIN conflictAnalysis.conflicts.roles :
              conflictAnalysis.conflicts.roles[i].type = type}}

\* the added and the removed roles change places when the snapshots do
Dual(forward, backward) ==
  /\ RolesReported(forward, "added", "incoming")
       = RolesReported(backward, "removed", "current")
  /\ RolesReported(forward, "removed", "current")
       = RolesReported(backward, "added", "incoming")

\* C27: the roles detectConflicts(A, B) reports as added are those
\* detectConflicts(B, A) reports as removed, and the roles it reports as
\* removed are those detectConflicts(B, A) reports as added.
C27_AddedRemovedDual ==
  JustDetected =>
    \A clock \in Clocks :
      Dual(detectConflicts(current, incoming, clock),
           detectConflicts(incoming, current, clock))

\* the keys a resolutions map can hold for a kind of entity of the two
\* snapshots, or of neither
KeysFor(kind, entities) ==
  LET ids == {entities[i].id : i \in DOMAIN entities} \cup {<<"x">>} IN
    UNION {{<<kind>> \o id, <<kind, "added-">> \o id, <<kind, "removed-">> \o id} :
             id \in ids}

\* a map with an entry for every key that is not the id of a conflict
WithStrayEntries(map, keys, conflicts, resolution) ==
  LET strays == keys \ {conflicts[i].id : i \in DOMAIN conflicts} IN
    [k \in DOMAIN map \cup strays |-> IF k \in strays THEN resolution ELSE map[k]]

\* resolutions with an entry for everything the analysis holds no conflict
\* about
WithStrays(given, conflictAnalysis, resolution) ==
  [title |-> IF conflictAnalysis.conflicts.title = NoEntity THEN resolution
             ELSE given.title,
   summary |-> IF conflictAnalysis.conflicts.summary = NoEntity THEN resolution
               ELSE given.summary,
   roles |-> WithStrayEntries(given.roles,
                              KeysFor("role-", current.roles \o incoming.roles),
                              conflictAnalysis.conflicts.roles, resolution),
   skills |-> WithStrayEntries(given.skills,
                               KeysFor("skill-", current.skills \o incoming.skills),
                               conflictAnalysis.conflicts.skills, resolution)]

\* C28: resolution entries for which the analysis holds no conflict have no
\* effect: the merge with a title or summary resolution where there is no
\* such conflict, and with role and skill entries under keys that are no
\* conflict ids, is the merge without them.
C28_StrayResolutionsIgnored ==
  Applied =>
    \A resolution \in Resolutions :
      \E clock \in Clocks :
        mergeWithResolutions(current, incoming, analysis,
                             WithStrays(resolutions, analysis, resolution), clock)
          = merged

C28_Witness ==
  /\ Applied
  /\ analysis.conflicts.title = NoEntity
  /\ Spread(current.title) # Spread(incoming.title)
  /\ WithStrays(resolutions, analysis, "accept").title = "accept"
  /\ DOMAIN WithStrays(resolutions, analysis, "accept").roles # DOMAIN resolutions.roles
  /\ merged.title = Spread(current.title)

\* conflict-resolver.tsx:71-78
resolvedCount(given) ==
  (IF given.title # "undefined" THEN 1 ELSE 0)
    + (IF given.summary # "undefined" THEN 1 ELSE 0)
    + Cardinality(DOMAIN given.roles)
    + Cardinality(DOMAIN given.skills)

DistinctIds(conflicts) ==
  \A i, j \in DOMAIN conflicts : i # j => conflicts[i].id # conflicts[j].id

\* C29: in an analysis of snapshots with unique entity ids no two role
\* conflicts and no two skill conflicts have the same id, the resolutions of
\* acceptAllIncoming and keepAllCurrent have totalConflicts entries, and the
\* number of resolved conflicts the resolver shows is at most totalConflicts.
C29_ConflictIdsDistinct ==
  Detected =>
    /\ DistinctIds(RoleConflicts)
    /\ DistinctIds(SkillConflicts)
    /\ resolvedCount(acceptAllIncoming(analysis)) = analysis.totalConflicts
    /\ resolvedCount(keepAllCurrent(analysis)) = analysis.totalConflicts
    /\ resolvedCount(resolutions) <= analysis.totalConflicts

\* a step in which the dialog calls onImportComplete
CallsOnImportComplete == completed' # completed

\* the user applies the resolutions in the resolver shown for an analysis
\* with conflicts, and the merge is what is handed on
AppliesResolutions ==
  /\ phase = "resolving"
  /\ analysis # NoEntity /\ analysis.hasConflicts
  /\ \E clock \in Clocks :
       completed'[Len(completed')].cv
         = mergeWithResolutions(current, incoming, analysis, resolutions, clock)

\* the user confirms the replacement offered when no conflict was detected,
\* and the import result is what is handed on
ConfirmsReplacement ==
  /\ phase = "confirm"
  /\ \E clock \in Clocks : ~detectConflicts(current, incoming, clock).hasConflicts
  /\ completed'[Len(completed')] = dialog.importResult

\* C30: while a document exists, the dialog calls onImportComplete only in
\* the step in which the user applies the resolutions of an analysis with
\* conflicts or confirms a replacement without conflicts; every call is one
\* call and leaves the dialog state reset; closing or cancelling calls
\* nothing, and neither does a closed dialog.
C30_CompleteOnlyOnDecision ==
  [][/\ CallsOnImportComplete /\ current # NoEntity
          => AppliesResolutions \/ ConfirmsReplacement
     /\ CallsOnImportComplete
          => /\ Len(completed') = Len(completed) + 1
             /\ dialog' = ClosedDialog
             /\ analysis' = NoEntity
     /\ HandleClose \/ phase = "closed" => ~CallsOnImportComplete]_vars

C30_Witness ==
  /\ Len(completed) = 2
  /\ dialog = ClosedDialog
  /\ analysis = NoEntity
  /\ completed[1].warnings = <<>>
  /\ completed[2].warnings = <<"Conflicts resolved and merged">>
  /\ completed[2].cv = merged
  /\ current = normalizeCv(merged)

====
